---------------------------- MODULE Spec2Model ----------------------------
(***************************************************************************)
(* pyAffy: a state-machine model of                                        *)
(*   - the median polish routines (medpolish, medpolish_missing),          *)
(*   - the Brainarray CDF layout parser (parse_cdf, parse_probeset),       *)
(*   - the CEL intensity front end (parse_cel, try_open_gzip,              *)
(*     create_gzip_pipe and the three format decoders).                    *)
(*                                                                         *)
(* Each subsystem has a specification of its own (SpecMP, SpecCDF,         *)
(* SpecCEL); the variables of the other subsystems stay at their idle      *)
(* values.                                                                 *)
(***************************************************************************)
EXTENDS Integers, Sequences, FiniteSets

VARIABLES
    \* ---- median polish ----
    mp_pc,        \* position in medpolish: "rows", "cols", "test", "done", "idle"
    masked_input, \* FALSE: medpolish (float32), TRUE: medpolish_missing (masked array)
    num_rows_mp,  \* X.shape[0]
    num_cols_mp,  \* X.shape[1]
    copy,         \* the copy argument
    X0,           \* history: the caller's matrix as it was at the call
    caller_X,     \* the matrix the caller holds
    X,            \* the working (residual) matrix: cells [v |-> data, m |-> mask]
    row_eff,
    col_eff,
    global_eff,
    sar,          \* sum of absolute residuals of the previous iteration
    new_sar,
    converged,
    t,
    maxiter,
    eps_num,      \* eps = eps_num / EpsDen
    inexact,      \* history: some subtraction/accumulation of a sweep was rounded
    sum_inexact   \* history: some sum of absolute residuals was rounded

VARIABLES
    \* ---- parse_cdf ----
    cdf_pc,        \* "idle", "header", "units", "cells", "finally", "returned",
                   \* "raised", "crashed"
    probe_type,    \* the probe_type argument
    probes,        \* the ProbeType derived from it
    warned,        \* a warning was logged
    cdf_exc,       \* an exception is propagating
    cdf_fp_open,   \* the FILE* is open
    num_rows,
    num_cols,
    num_probesets,
    unit_i,        \* loop index of parse_cdf
    gene,
    num_pairs,     \* NumAtoms of the current block
    n,             \* expected number of retained cells of the current block
    num_probes,    \* NumCells of the current block
    cell_i,        \* loop index of parse_probeset
    c,             \* number of retained cells of the current block
    ind,           \* the written prefix of the block's index array
    cells_read,    \* history: the Cell records of the current block, in file order
    probesets,     \* the OrderedDict: a sequence of <<key, indices>>
    total_expected,\* history: sum of the expected counts of the stored blocks
    total_stored,  \* history: sum of the lengths of the stored index sequences
    count_mismatch,\* history: some block's retained count differed from n
    cdf_header,    \* history: the header literals read from the file
    field_mismatch,\* history: a field line read did not match its pattern
    record_failed, \* history: the assertion on a NumCells= or Cell line failed
    blocks_missing \* history: the file ended before the block header looked for

\* history of what parse_cdf found in the file
cdfFileVars == <<cdf_header, field_mismatch, record_failed, blocks_missing>>

cdfVars == <<cdf_pc, probe_type, probes, warned, cdf_exc, cdf_fp_open, num_rows,
             num_cols, num_probesets, unit_i, gene, num_pairs, n, num_probes, cell_i,
             c, ind, cells_read, probesets, total_expected, total_stored,
             count_mismatch, cdfFileVars>>

VARIABLES
    \* ---- parse_cel and the CEL decoders ----
    cel_pc,          \* "idle", "detect", "dispatch", "pipe", "open", "parse",
                     \* "finally", "returned", "raised", "crashed"
    entry,           \* the function the caller called
    file_kind,       \* "unreadable", "plain" or "gzip"
    first_byte,      \* first byte of the (decompressed) content, -1: no content
    compressed,
    version,
    decoder,         \* the decoder running: "none", "v3", "v4", "cc"
    decoders_invoked,\* history: number of decoder calls made
    pipe_exists,     \* the named pipe is present in the file system
    pipe_created,    \* history: this call created a named pipe
    helper_spawned,  \* the gunzip helper process was started
    helper,          \* the helper process: "none", "opening" (blocked opening
                     \* the pipe for writing), "writing", "blocked" (the pipe
                     \* is full and nobody reads), "exited"
    cel_fh_open,     \* the decoder's file handle is open
    cel_exc,         \* an exception is propagating
    cel_rows,
    cel_cols,
    placed,          \* v4 file: the intensity of the cell at <<x, y>>
    yvec,            \* the decoded intensity vector (0-based)
    ignore_masked,   \* the options of the decoder call
    ignore_outliers,
    cel_header,      \* the header fields the decoder read
    declared_cells,  \* the number of intensities the file declares
    cells_in_file,   \* the number of intensities present before end-of-file
    yraw,            \* the intensities as read, before any mask is applied
    masked_coords,   \* v4: the masked <<x, y>> entries of the file
    outlier_coords,  \* v4: the outlier <<x, y>> entries of the file
    cc_groups,       \* Command Console: the number of data groups declared
    cc_dataset,      \* Command Console: name and columns of the data set
    read,            \* Command Console: the running byte counter read[0]
    consumed,        \* Command Console: bytes taken from the stream by fh.read
    first_data_group_pos, \* Command Console: the declared first-data-group offset
    read_after_header     \* Command Console: read[0] when read_data_header returned, -1 before

\* the options of a decoder call
optVars == <<ignore_masked, ignore_outliers>>

\* what a decoder reads from the file
\* the byte accounting of parse_celfile_cc
ccStreamVars == <<read, consumed, first_data_group_pos, read_after_header>>

fileVars == <<cel_header, declared_cells, cells_in_file, yraw, masked_coords,
              outlier_coords, cc_groups, cc_dataset, ccStreamVars>>

celVars == <<cel_pc, entry, file_kind, first_byte, compressed, version, decoder,
             decoders_invoked, pipe_exists, pipe_created, helper_spawned, helper,
             cel_fh_open, cel_exc, cel_rows, cel_cols, placed, yvec,
             optVars, fileVars>>

mpVars == <<mp_pc, copy, caller_X, masked_input, num_rows_mp, num_cols_mp, X0, X, row_eff,
            col_eff, global_eff, sar, new_sar, converged, t, maxiter, eps_num,
            inexact, sum_inexact>>

\* what the actions of one subsystem leave alone
notMP == <<cdfVars, celVars>>

notCDF == <<mpVars, celVars>>

notCEL == <<mpVars, cdfVars>>

-----------------------------------------------------------------------------
(***************************************************************************)
(* Floating point.  The routines compute in binary floating point (float32 *)
(* in medpolish, float64 in medpolish_missing).  The model keeps the       *)
(* format's behaviour (round to nearest, ties to even, gradual underflow)  *)
(* with a significand of PrecBits bits; values are integers counted in     *)
(* units of the smallest representable step.                               *)
(***************************************************************************)
PrecBits == 3

Abs(v) == IF v < 0 THEN -v ELSE v

Sgn(v) == IF v < 0 THEN -1 ELSE 1

RECURSIVE Pow2(_)
Pow2(k) == IF k <= 0 THEN 1 ELSE 2 * Pow2(k - 1)

\* the spacing of the representable numbers around magnitude a
RECURSIVE UlpFrom(_, _)
UlpFrom(a, s) == IF a < Pow2(PrecBits) * s THEN s ELSE UlpFrom(a, 2 * s)

Ulp(v) == UlpFrom(Abs(v), 1)

\* a >= 0 rounded to the nearest multiple of s, ties to the even multiple
RoundToStep(a, s) ==
    LET q == a \div s
        r == a % s
    IN  IF 2 * r < s THEN q * s
        ELSE IF 2 * r > s THEN (q + 1) * s
        ELSE IF q % 2 = 0 THEN q * s ELSE (q + 1) * s

\* the representable number nearest to the real number v
Fl(v) == Sgn(v) * RoundToStep(Abs(v), Ulp(v))

Representable(v) == Fl(v) = v

\* m / 2 for a representable m (exact unless m is an odd number of units)
Half(m) ==
    LET a == Abs(m)
        k == a \div 2
    IN  IF a % 2 = 0 THEN Sgn(m) * k
        ELSE Sgn(m) * (IF k % 2 = 0 THEN k ELSE k + 1)

fadd(a, b) == Fl(a + b)

fsub(a, b) == Fl(a - b)

-----------------------------------------------------------------------------
(***************************************************************************)
(* numpy helpers as the routines use them                                  *)
(***************************************************************************)
RECURSIVE Insert(_, _)
Insert(x, s) ==
    IF s = << >> THEN << x >>
    ELSE IF x <= Head(s) THEN << x >> \o s
    ELSE << Head(s) >> \o Insert(x, Tail(s))

RECURSIVE Sorted(_)
Sorted(s) == IF s = << >> THEN << >> ELSE Insert(Head(s), Sorted(Tail(s)))

\* np.median of a non-empty sequence of numbers: the middle element, or the
\* mean of the two middle elements computed in the array's precision
Median(s) ==
    LET len == Len(s)
        srt == Sorted(s)
    IN  IF len % 2 = 1 THEN srt[(len + 1) \div 2]
        ELSE Half(fadd(srt[len \div 2], srt[len \div 2 + 1]))

\* the unmasked data of a sequence of cells, in order
RECURSIVE Unmasked(_)
Unmasked(cs) ==
    IF cs = << >> THEN << >>
    ELSE IF Head(cs).m THEN Unmasked(Tail(cs))
    ELSE << Head(cs).v >> \o Unmasked(Tail(cs))

Rows == 1 .. num_rows_mp
Cols == 1 .. num_cols_mp

RowOf(M, i) == [j \in Cols |-> M[i][j]]
ColOf(M, j) == [i \in Rows |-> M[i][j]]

\* the data value np.ma.median(...).data holds for a row or column whose
\* entries are all masked: the median is the halved np.ma.sum of the two
\* middle elements, both masked, and the sum of masked elements is computed
\* over the array filled with zeros; the result is masked and its data is 0
AllMaskedData == {0}

\* the candidates for the median of one row or column
MedianChoicesDataUnderMask(cs) ==
    IF Unmasked(cs) = << >> THEN {cs[1].v + 1} ELSE {Median(Unmasked(cs))}

MedianChoices(cs) ==
    IF Unmasked(cs) = << >> THEN AllMaskedData ELSE {Median(Unmasked(cs))}

\* X[i,j] -= d: a masked entry stays masked and keeps its data
CellSubAdding(cell, d) == IF cell.m THEN cell ELSE [v |-> fadd(cell.v, d), m |-> FALSE]

CellSub(cell, d) == IF cell.m THEN cell ELSE [v |-> fsub(cell.v, d), m |-> FALSE]

CellSubExact(cell, d) == cell.m \/ Representable(cell.v - d)

\* np.sum(np.absolute(X)): the unmasked entries, accumulated in order
RECURSIVE SumAbsFrom(_, _)
SumAbsFrom(s, acc) ==
    IF s = << >> THEN acc ELSE SumAbsFrom(Tail(s), fadd(acc, Abs(Head(s))))

SumAbs(s) == SumAbsFrom(s, 0)

RECURSIVE Flatten(_, _)
Flatten(M, i) ==
    IF i > num_rows_mp THEN << >> ELSE Unmasked(RowOf(M, i)) \o Flatten(M, i + 1)

SumAbsResiduals(M) == SumAbs(Flatten(M, 1))

\* the sum of the absolute values of the unmasked entries as a real number
RECURSIVE ExactSum(_)
ExactSum(s) == IF s = << >> THEN 0 ELSE Abs(Head(s)) + ExactSum(Tail(s))

ExactSumAbs(M) == ExactSum(Flatten(M, 1))

-----------------------------------------------------------------------------
(***************************************************************************)
(* medpolish / medpolish_missing                                           *)
(***************************************************************************)
MaxIter == 2       \* maxiter is drawn from -2 .. MaxIter
IterCap == 3       \* iterations explored when maxiter = -1 (unlimited)
EpsDen == 100
EpsChoices == {1, 50}                 \* eps = 0.01 (the default) and 0.5
InputVals == {-5, -1, 0, 2, 16}
Shapes == {<<2, 2>>, <<1, 3>>, <<3, 1>>}

Cell(v) == [v |-> v, m |-> FALSE]
MaskedCell(v) == [v |-> v, m |-> TRUE]

InputCells(msk) ==
    {Cell(v) : v \in InputVals} \cup (IF msk THEN {MaskedCell(0)} ELSE {})

Matrices(nr, nc, msk) == [1 .. nr -> [1 .. nc -> InputCells(msk)]]

HasUnmasked(M, nr, nc) == \E i \in 1 .. nr, j \in 1 .. nc : ~M[i][j].m

\* lines 26-45 / 95-114: the state on entry to the loop
InitMP ==
    /\ masked_input \in BOOLEAN
    /\ \E sh \in Shapes :
          /\ num_rows_mp = sh[1]
          /\ num_cols_mp = sh[2]
          /\ X0 \in Matrices(sh[1], sh[2], masked_input)
          /\ HasUnmasked(X0, sh[1], sh[2])
    /\ copy \in BOOLEAN
    /\ caller_X = X0
    /\ X = X0
    /\ row_eff = [i \in 1 .. num_rows_mp |-> 0]
    /\ col_eff = [j \in 1 .. num_cols_mp |-> 0]
    /\ global_eff = 0
    /\ sar = 0
    /\ new_sar = 0
    /\ converged = FALSE
    /\ t = 0
    /\ maxiter \in -2 .. MaxIter
    /\ eps_num \in EpsChoices
    /\ inexact = FALSE
    /\ sum_inexact = FALSE
    /\ mp_pc = "rows"

IdleMP ==
    /\ mp_pc = "idle"
    /\ masked_input = FALSE
    /\ num_rows_mp = 0
    /\ num_cols_mp = 0
    /\ copy = TRUE
    /\ X0 = << >>
    /\ caller_X = << >>
    /\ X = << >>
    /\ row_eff = << >>
    /\ col_eff = << >>
    /\ global_eff = 0
    /\ sar = 0
    /\ new_sar = 0
    /\ converged = FALSE
    /\ t = 0
    /\ maxiter = 0
    /\ eps_num = 1
    /\ inexact = FALSE
    /\ sum_inexact = FALSE

\* lines 28-29 / 97-98: "if copy: X = X.copy()".  With a copy the sweeps
\* write into a private matrix; without one X is the caller's buffer and
\* every write of a sweep is a write into the caller's matrix.
CallerMatrixNeverCopied(cp, caller, working) == working

CallerMatrix(cp, caller, working) == IF cp THEN caller ELSE working

\* the while condition
LoopConditionInclusive == (maxiter = -1 \/ t <= maxiter) /\ ~converged

LoopCondition == (maxiter = -1 \/ t < maxiter) /\ ~converged

\* "global_eff += diff"
AccumulateGlobalNoAdd(g, diff) == g

AccumulateGlobal(g, diff) == fadd(g, diff)

\* "sweep rows": subtract the row medians, add them to the row effects, then
\* re-centre the column effects into the global effect
MP_SweepRowsRecentreRows ==
    /\ mp_pc = "rows"
    /\ LoopCondition
    /\ maxiter = -1 => t < IterCap
    /\ \E rdiff \in [Rows -> UNION {MedianChoices(RowOf(X, i)) : i \in Rows}] :
          /\ \A i \in Rows : rdiff[i] \in MedianChoices(RowOf(X, i))
          /\ LET acc == [i \in Rows |-> fadd(row_eff[i], rdiff[i])]
                 diff == Median(acc)
             IN  /\ X' = [i \in Rows |-> [j \in Cols |-> CellSub(X[i][j], rdiff[i])]]
                 /\ row_eff' = [i \in Rows |-> fsub(acc[i], diff)]
                 /\ col_eff' = col_eff
                 /\ global_eff' = AccumulateGlobal(global_eff, diff)
                 /\ inexact' = (\/ inexact
                                \/ \E i \in Rows, j \in Cols : ~CellSubExact(X[i][j], rdiff[i])
                                \/ \E i \in Rows : ~Representable(row_eff[i] + rdiff[i])
                                \/ \E i \in Rows : ~Representable(acc[i] - diff)
                                \/ ~Representable(global_eff + diff))
    /\ mp_pc' = "cols"
    /\ caller_X' = CallerMatrix(copy, caller_X, X')
    /\ UNCHANGED <<copy, masked_input, num_rows_mp, num_cols_mp, X0, sar, new_sar, sum_inexact,
                   converged, t, maxiter, eps_num>>
    /\ UNCHANGED notMP

MP_SweepRows ==
    /\ mp_pc = "rows"
    /\ LoopCondition
    /\ maxiter = -1 => t < IterCap
    /\ \E rdiff \in [Rows -> UNION {MedianChoices(RowOf(X, i)) : i \in Rows}] :
          /\ \A i \in Rows : rdiff[i] \in MedianChoices(RowOf(X, i))
          /\ LET diff == Median(col_eff)
             IN  /\ X' = [i \in Rows |-> [j \in Cols |-> CellSub(X[i][j], rdiff[i])]]
                 /\ row_eff' = [i \in Rows |-> fadd(row_eff[i], rdiff[i])]
                 /\ col_eff' = [j \in Cols |-> fsub(col_eff[j], diff)]
                 /\ global_eff' = AccumulateGlobal(global_eff, diff)
                 /\ inexact' = (\/ inexact
                                \/ \E i \in Rows, j \in Cols : ~CellSubExact(X[i][j], rdiff[i])
                                \/ \E i \in Rows : ~Representable(row_eff[i] + rdiff[i])
                                \/ \E j \in Cols : ~Representable(col_eff[j] - diff)
                                \/ ~Representable(global_eff + diff))
    /\ mp_pc' = "cols"
    /\ caller_X' = CallerMatrix(copy, caller_X, X')
    /\ UNCHANGED <<copy, masked_input, num_rows_mp, num_cols_mp, X0, sar, new_sar, sum_inexact,
                   converged, t, maxiter, eps_num>>
    /\ UNCHANGED notMP

\* "sweep columns": subtract the column medians, add them to the column
\* effects, then re-centre the row effects into the global effect
MP_SweepCols ==
    /\ mp_pc = "cols"
    /\ \E cdiff \in [Cols -> UNION {MedianChoices(ColOf(X, j)) : j \in Cols}] :
          /\ \A j \in Cols : cdiff[j] \in MedianChoices(ColOf(X, j))
          /\ LET diff == Median(row_eff)
             IN  /\ X' = [i \in Rows |-> [j \in Cols |-> CellSub(X[i][j], cdiff[j])]]
                 /\ col_eff' = [j \in Cols |-> fadd(col_eff[j], cdiff[j])]
                 /\ row_eff' = [i \in Rows |-> fsub(row_eff[i], diff)]
                 /\ global_eff' = AccumulateGlobal(global_eff, diff)
                 /\ inexact' = (\/ inexact
                                \/ \E i \in Rows, j \in Cols : ~CellSubExact(X[i][j], cdiff[j])
                                \/ \E j \in Cols : ~Representable(col_eff[j] + cdiff[j])
                                \/ \E i \in Rows : ~Representable(row_eff[i] - diff)
                                \/ ~Representable(global_eff + diff))
    /\ mp_pc' = "test"
    /\ caller_X' = CallerMatrix(copy, caller_X, X')
    /\ UNCHANGED <<copy, masked_input, num_rows_mp, num_cols_mp, X0, sar, new_sar, sum_inexact,
                   converged, t, maxiter, eps_num>>
    /\ UNCHANGED notMP

\* "abs(new_sar - sar) < eps * new_sar" with eps = e / EpsDen
ConvergenceTest(ns, s, e) == Abs(fsub(ns, s)) * EpsDen < e * ns

\* "next": count the iteration, compute the sum of absolute residuals and
\* test for convergence
MP_Test ==
    /\ mp_pc = "test"
    /\ t' = t + 1
    /\ new_sar' = SumAbsResiduals(X)
    /\ converged' = (converged \/ ConvergenceTest(new_sar', sar, eps_num))
    /\ sar' = new_sar'
    /\ sum_inexact' = (sum_inexact \/ SumAbsResiduals(X) # ExactSumAbs(X))
    /\ mp_pc' = "rows"
    /\ UNCHANGED <<copy, caller_X, masked_input, num_rows_mp, num_cols_mp, X0, X, row_eff,
                   col_eff, global_eff, maxiter, eps_num, inexact>>
    /\ UNCHANGED notMP

\* the while condition is false: return
MP_Return ==
    /\ mp_pc = "rows"
    /\ ~LoopCondition
    /\ mp_pc' = "done"
    /\ UNCHANGED <<sum_inexact, copy, caller_X, masked_input, num_rows_mp, num_cols_mp, X0, X, row_eff,
                   col_eff, global_eff, sar, new_sar, converged, t, maxiter,
                   eps_num, inexact>>
    /\ UNCHANGED notMP

NextMP == MP_SweepRows \/ MP_SweepCols \/ MP_Test \/ MP_Return

-----------------------------------------------------------------------------
(***************************************************************************)
(* parse_cdf / parse_probeset                                              *)
(*                                                                         *)
(* The file is read line by line; the model draws each line's content when *)
(* the parser reads it.                                                    *)
(***************************************************************************)
MaxUnits == 2      \* NumberOfUnits is drawn from 0 .. MaxUnits
MaxCells == 2      \* NumAtoms and NumCells are drawn from 0 .. MaxCells
Geometries == {<<2, 2>>, <<2, 3>>, <<3, 2>>}     \* <<Rows, Cols>> of the [Chip] section
GeneNames == {"g1_at", "g2_at"}
ProbeTypeArgs == {"pm", "mm", "all", "xx"}
\* the three literal lines of the header: lines 1, 2 and 4 of the file
CdfHeaders ==
    [line1 : {"[CDF]", "[CDX]"},
     line2 : {"Version=GC3.0", "Version=GC2.0"},
     line4 : {"[Chip]", "[Chop]"}]
RefBases == {"A"}
ProbeBases == {"A", "T"}

\* lines 164-176: the ProbeType selected by the probe_type argument
ProbeTypeOfUnknownAll(pt) ==
    IF pt = "pm" THEN "PROBES_PM"
    ELSE IF pt = "mm" THEN "PROBES_MM"
    ELSE "PROBES_ALL"

ProbeTypeOf(pt) ==
    IF pt = "all" THEN "PROBES_ALL"
    ELSE IF pt = "mm" THEN "PROBES_MM"
    ELSE "PROBES_PM"

\* lines 106-108: the condition under which a Cell record contributes an index
KeepCellSwapped(p, ref_base, probe_base) ==
    \/ p = "PROBES_ALL"
    \/ (p = "PROBES_PM" /\ ref_base = probe_base)
    \/ (p = "PROBES_MM" /\ ref_base # probe_base)

KeepCell(p, ref_base, probe_base) ==
    \/ p = "PROBES_ALL"
    \/ (p = "PROBES_PM" /\ ref_base # probe_base)
    \/ (p = "PROBES_MM" /\ ref_base = probe_base)

\* line 109: the linear index of the cell at column x, row y
CellIndex(nrows, x, y) == nrows * y + x

\* lines 90-93: the expected number of retained cells
ExpectedCountAlwaysCells(p, pairs, cells) == cells

ExpectedCount(p, pairs, cells) == IF p = "PROBES_ALL" THEN cells ELSE pairs

\* probesets[key] = val on an OrderedDict
RECURSIVE DictSet(_, _, _)
DictSet(d, key, val) ==
    IF d = << >> THEN << <<key, val>> >>
    ELSE IF Head(d)[1] = key THEN << <<key, val>> >> \o Tail(d)
    ELSE << Head(d) >> \o DictSet(Tail(d), key, val)

IdleCDF ==
    /\ cdf_pc = "idle"
    /\ probe_type = "pm"
    /\ probes = "PROBES_PM"
    /\ warned = FALSE
    /\ cdf_exc = FALSE
    /\ cdf_fp_open = FALSE
    /\ num_rows = 0
    /\ num_cols = 0
    /\ num_probesets = 0
    /\ unit_i = 0
    /\ gene = ""
    /\ num_pairs = 0
    /\ n = 0
    /\ num_probes = 0
    /\ cell_i = 0
    /\ c = 0
    /\ ind = << >>
    /\ cells_read = << >>
    /\ probesets = << >>
    /\ total_expected = 0
    /\ total_stored = 0
    /\ count_mismatch = FALSE
    /\ cdf_header = << >>
    /\ field_mismatch = FALSE
    /\ record_failed = FALSE
    /\ blocks_missing = FALSE

\* lines 147-183: the call, the selection mode and fopen
CDF_Call ==
    /\ cdf_pc = "idle"
    /\ \E pt \in ProbeTypeArgs :
          /\ probe_type' = pt
          /\ probes' = ProbeTypeOf(pt)
          /\ warned' = (pt \notin {"all", "mm", "pm"})
    /\ cdf_fp_open' = TRUE
    /\ cdf_pc' = "header"
    /\ UNCHANGED <<cdf_exc, num_rows, num_cols, num_probesets, unit_i, gene,
                   num_pairs, n, num_probes, cell_i, c, ind, cells_read, probesets,
                   total_expected, total_stored, count_mismatch>>
    /\ UNCHANGED cdfFileVars
    /\ UNCHANGED notCDF

\* lines 193, 195 and 201: the assertions on the header literals
CdfHeaderAcceptedAnyVersion(h) == h.line1 = "[CDF]" /\ h.line4 = "[Chip]"

CdfHeaderAccepted(h) ==
    /\ h.line1 = "[CDF]"
    /\ h.line2 = "Version=GC3.0"
    /\ h.line4 = "[Chip]"

\* lines 192-213: the [CDF] and [Chip] header.  The results of the sscanf
\* calls for Name=, Rows=, Cols= and NumberOfUnits= are not looked at: a line
\* that does not match leaves its variable as it was (never assigned), and
\* the parse goes on.
CDF_ReadHeader ==
    /\ cdf_pc = "header"
    /\ \E h \in CdfHeaders, g \in Geometries, nu \in 0 .. MaxUnits,
          fields_match \in BOOLEAN :
          /\ cdf_header' = h
          /\ IF CdfHeaderAccepted(h)
             THEN /\ num_rows' = g[1]
                  /\ num_cols' = g[2]
                  /\ num_probesets' = nu
                  /\ field_mismatch' = ~fields_match
                  /\ cdf_pc' = "units"
                  /\ UNCHANGED cdf_exc
             ELSE /\ cdf_exc' = TRUE
                  /\ cdf_pc' = "finally"
                  /\ UNCHANGED <<num_rows, num_cols, num_probesets, field_mismatch>>
    /\ UNCHANGED <<probe_type, probes, warned, cdf_fp_open, unit_i, gene,
                   num_pairs, n, num_probes, cell_i, c, ind, cells_read, probesets,
                   total_expected, total_stored, count_mismatch, record_failed,
                   blocks_missing>>
    /\ UNCHANGED notCDF

\* lines 72-101: the block header and its fields, up to the Cell records.
\* Only the result of the sscanf for NumCells= is asserted (line 88): a
\* Name= line that does not match leaves the name of the block before in
\* gene, a NumAtoms= line that does not match leaves num_pairs unassigned
\* (an arbitrary value), and the parse goes on.
CDF_UnitHeader ==
    /\ cdf_pc = "units"
    /\ unit_i < num_probesets
    /\ \E g \in GeneNames, pairs \in 0 .. MaxCells, cells \in 0 .. MaxCells,
          name_matches \in BOOLEAN, atoms_matches \in BOOLEAN,
          cells_matches \in BOOLEAN :
          /\ gene' = IF name_matches THEN g ELSE gene
          /\ num_pairs' = pairs
          /\ field_mismatch' = (field_mismatch \/ ~name_matches \/ ~atoms_matches)
          /\ IF cells_matches
             THEN /\ num_probes' = cells
                  /\ n' = ExpectedCount(probes, pairs, cells)
                  /\ ind' = << >>
                  /\ c' = 0
                  /\ cell_i' = 0
                  /\ cells_read' = << >>
                  /\ cdf_pc' = "cells"
                  /\ UNCHANGED <<cdf_exc, record_failed>>
             ELSE /\ record_failed' = TRUE
                  /\ cdf_exc' = TRUE
                  /\ cdf_pc' = "finally"
                  /\ UNCHANGED <<num_probes, n, ind, c, cell_i, cells_read>>
    /\ UNCHANGED <<probe_type, probes, warned, cdf_fp_open, num_rows,
                   num_cols, num_probesets, unit_i, probesets, total_expected,
                   total_stored, count_mismatch, cdf_header, blocks_missing>>
    /\ UNCHANGED notCDF

\* lines 57-59 and 72-74: the file ends before the next block header.
\* fgets' result is not looked at: at end-of-file the buffer keeps the last
\* line read, read_line cuts nl more characters off it each time, and once
\* it is shorter than nl the cut writes outside the buffer.  The scan never
\* finds a header: it goes on forever or the write kills the process.
CDF_NoBlockHeader ==
    /\ cdf_pc = "units"
    /\ unit_i < num_probesets
    /\ blocks_missing' = TRUE
    /\ cdf_pc' \in {"hung", "crashed"}
    /\ UNCHANGED <<probe_type, probes, warned, cdf_exc, cdf_fp_open, num_rows,
                   num_cols, num_probesets, unit_i, gene, num_pairs, n, num_probes,
                   cell_i, c, ind, cells_read, probesets, total_expected,
                   total_stored, count_mismatch, cdf_header, field_mismatch,
                   record_failed>>
    /\ UNCHANGED notCDF

\* lines 103-105: a Cell line that does not match its pattern fails the
\* assertion on the sscanf result
CDF_CellMismatch ==
    /\ cdf_pc = "cells"
    /\ cell_i < num_probes
    /\ record_failed' = TRUE
    /\ cdf_exc' = TRUE
    /\ cdf_pc' = "finally"
    /\ UNCHANGED <<probe_type, probes, warned, cdf_fp_open, num_rows, num_cols,
                   num_probesets, unit_i, gene, num_pairs, n, num_probes, cell_i,
                   c, ind, cells_read, probesets, total_expected, total_stored,
                   count_mismatch, cdf_header, field_mismatch, blocks_missing>>
    /\ UNCHANGED notCDF

\* lines 102-110: one Cell record.  A retained cell beyond the capacity n of
\* the index array is written outside the array (bounds checks are off):
\* the write either kills the process or goes unnoticed.
CDF_Cell ==
    /\ cdf_pc = "cells"
    /\ cell_i < num_probes
    /\ \E x \in 0 .. num_cols - 1, y \in 0 .. num_rows - 1,
          rb \in RefBases, pb \in ProbeBases :
          /\ cells_read' = Append(cells_read, [x |-> x, y |-> y, ref |-> rb, probe |-> pb])
          /\ IF KeepCell(probes, rb, pb)
             THEN IF c < n
                  THEN /\ ind' = Append(ind, CellIndex(num_rows, x, y))
                       /\ c' = c + 1
                       /\ cdf_pc' = "cells"
                  ELSE /\ ind' = ind
                       /\ c' = c + 1
                       /\ cdf_pc' \in {"cells", "crashed"}
             ELSE UNCHANGED <<ind, c, cdf_pc>>
    /\ cell_i' = cell_i + 1
    /\ UNCHANGED <<probe_type, probes, warned, cdf_exc, cdf_fp_open, num_rows,
                   num_cols, num_probesets, unit_i, gene, num_pairs, n, num_probes,
                   probesets, total_expected, total_stored, count_mismatch>>
    /\ UNCHANGED cdfFileVars
    /\ UNCHANGED notCDF

\* history: the expected count the block declares for the selection in force
\* (NumCells under "all", NumAtoms otherwise), and the number of Cell
\* records of the block that pass the selection filter
DeclaredCount == IF probe_type = "all" THEN num_probes ELSE num_pairs

RECURSIVE PassingCount(_)
PassingCount(cells) ==
    IF cells = << >> THEN 0
    ELSE (IF KeepCell(probes, Head(cells).ref, Head(cells).probe) THEN 1 ELSE 0)
         + PassingCount(Tail(cells))

\* lines 112-114 and 220: "assert c == n", return ind, store it under the
\* name; the locals of parse_probeset end with the call
CDF_EndUnit ==
    /\ cdf_pc = "cells"
    /\ cell_i = num_probes
    /\ IF c = n
       THEN /\ probesets' = DictSet(probesets, gene, ind)
            /\ unit_i' = unit_i + 1
            /\ total_expected' = total_expected + DeclaredCount
            /\ total_stored' = total_stored + Len(ind)
            /\ cdf_pc' = "units"
            /\ ind' = << >>
            /\ cells_read' = << >>
            /\ UNCHANGED cdf_exc
       ELSE /\ cdf_exc' = TRUE
            /\ cdf_pc' = "finally"
            /\ UNCHANGED <<probesets, unit_i, total_expected, total_stored,
                           ind, cells_read>>
    /\ count_mismatch' = (count_mismatch \/ PassingCount(cells_read) # DeclaredCount)
    /\ UNCHANGED <<probe_type, probes, warned, cdf_fp_open, num_rows, num_cols,
                   num_probesets, gene, num_pairs, n, num_probes, cell_i, c>>
    /\ UNCHANGED cdfFileVars
    /\ UNCHANGED notCDF

\* line 216: the loop over the units is finished
CDF_UnitsDone ==
    /\ cdf_pc = "units"
    /\ unit_i = num_probesets
    /\ cdf_pc' = "finally"
    /\ UNCHANGED <<probe_type, probes, warned, cdf_exc, cdf_fp_open, num_rows,
                   num_cols, num_probesets, unit_i, gene, num_pairs, n, num_probes,
                   cell_i, c, ind, cells_read, probesets, total_expected,
                   total_stored, count_mismatch>>
    /\ UNCHANGED cdfFileVars
    /\ UNCHANGED notCDF

\* lines 222-231: fclose, then return or propagate the exception
CDF_Finally ==
    /\ cdf_pc = "finally"
    /\ cdf_fp_open' = FALSE
    /\ cdf_pc' = IF cdf_exc THEN "raised" ELSE "returned"
    /\ UNCHANGED <<probe_type, probes, warned, cdf_exc, num_rows, num_cols,
                   num_probesets, unit_i, gene, num_pairs, n, num_probes, cell_i,
                   c, ind, cells_read, probesets, total_expected, total_stored,
                   count_mismatch>>
    /\ UNCHANGED cdfFileVars
    /\ UNCHANGED notCDF

NextCDF ==
    \/ CDF_Call
    \/ CDF_ReadHeader
    \/ CDF_UnitHeader
    \/ CDF_NoBlockHeader
    \/ CDF_Cell
    \/ CDF_CellMismatch
    \/ CDF_EndUnit
    \/ CDF_UnitsDone
    \/ CDF_Finally

-----------------------------------------------------------------------------
(***************************************************************************)
(* parse_cel, try_open_gzip, create_gzip_pipe and the decoders             *)
(***************************************************************************)
EntryPoints == {"parse_cel", "parse_celfile_v3", "parse_celfile_v4", "parse_celfile_cc"}
FileKinds == {"unreadable", "plain", "gzip"}
FirstBytes == {-1, 59, 64, 91}        \* no content, Command Console, v4, "["
CelGeometries == {<<2, 2>>, <<2, 3>>, <<3, 2>>}     \* <<rows, cols>>
IntensityVals == {1, 2}
PipeOutcomes == {"tempfile_fails", "mkfifo_fails", "popen_fails", "ok"}

\* lines 1023-1034, try_open_gzip: what the returned fh is.  gzip.open
\* opens the file without reading it, so it fails only on a file that cannot
\* be opened; fh.read(1) raises IOError on a file that is not gzip data, and
\* the except clause leaves fh bound to the handle opened before.
TryOpenGzip(kind) ==
    IF kind = "unreadable" THEN "None"
    ELSE IF kind = "gzip" THEN "gzip_handle"
    ELSE "gzip_handle_on_plain_file"

\* lines 1088-1096: the decoder selected by the first byte
DecoderForSwapped(v) ==
    IF v = 59 THEN "v4" ELSE IF v = 64 THEN "cc" ELSE "v3"

DecoderFor(v) ==
    IF v = 59 THEN "cc" ELSE IF v = 64 THEN "v4" ELSE "v3"

DecoderOfEntry(e) ==
    IF e = "parse_celfile_v3" THEN "v3"
    ELSE IF e = "parse_celfile_v4" THEN "v4"
    ELSE "cc"

\* the intensities of a v4 file in file order: the cells are stored row by
\* row, column x running fastest (0-based position k)
StreamAt(pl, ncols, k) == pl[<<k % ncols, k \div ncols>>]

\* lines 474-477, read_float: fread's result is not looked at; at
\* end-of-file the buffer keeps what the last reads left in it and the value
\* decoded from it (stale) is returned
read_float(pl, ncols, k, avail, stale) ==
    IF k < avail THEN StreamAt(pl, ncols, k) ELSE stale

\* lines 494-507, read_cell_intensities: the loops over the rows and, within
\* a row, over the columns store the values read at consecutive positions
RECURSIVE ReadCells(_, _, _, _, _, _, _, _)
ReadCells(pl, nrows, ncols, i, j, pos, avail, stale) ==
    IF i >= nrows THEN << >>
    ELSE IF j >= ncols THEN ReadCells(pl, nrows, ncols, i + 1, 0, pos, avail, stale)
    ELSE << read_float(pl, ncols, pos, avail, stale) >>
         \o ReadCells(pl, nrows, ncols, i, j + 1, pos + 1, avail, stale)

read_cell_intensities(pl, nrows, ncols, avail, stale) ==
    LET sq == ReadCells(pl, nrows, ncols, 0, 0, 0, avail, stale)
    IN  [pos \in 0 .. Len(sq) - 1 |-> sq[pos + 1]]

\* line 545: float('nan')
NaN == -1

\* lines 540-545, apply_mask: y[num_rows * coords[i,1] + coords[i,0]] = nan
\* for every entry; a position outside the vector is written outside it
\* (bounds checks are off) and changes no element
RECURSIVE apply_mask(_, _, _)
apply_mask(y, nrows, coords) ==
    IF coords = << >> THEN y
    ELSE LET idx == CellIndex(nrows, Head(coords)[1], Head(coords)[2])
         IN  apply_mask(IF idx \in DOMAIN y THEN [y EXCEPT ![idx] = NaN] ELSE y,
                        nrows, Tail(coords))

MaskOutOfBounds(y, nrows, coords) ==
    \E k \in 1 .. Len(coords) : CellIndex(nrows, coords[k][1], coords[k][2]) \notin DOMAIN y

MaxCoords == 1     \* masked and outlier entries of a v4 file: 0 .. MaxCoords each
MaxMissing == 1    \* intensities missing at the end of a truncated file

\* the cells a masked or outlier entry may name: the origin and the last
\* cell on each axis of the grid
MaskCells(nrows, ncols) == {<<0, 0>>, <<ncols - 1, 0>>, <<0, nrows - 1>>}

CoordSeqs(nrows, ncols) ==
    UNION {[1 .. k -> MaskCells(nrows, ncols)] : k \in 0 .. MaxCoords}

AvailChoices(declared) ==
    {declared} \cup {declared - k : k \in 1 .. (IF declared < MaxMissing THEN declared ELSE MaxMissing)}

\* the header fields of a v4 file
V4Headers ==
    {[magic |-> m, version |-> v, rows |-> g[1], cols |-> g[2],
      num_cells |-> g[1] * g[2] + d] :
        m \in {64, 65}, v \in {3, 4}, g \in CelGeometries, d \in {0, 1}}

\* the first two lines of a v3 file
V3Headers == [line1 : {"[CEL]", "[HEADER]"}, line2 : {"Version=3", "Version=4"}]

\* the magic and version bytes of a Command Console file
CcHeaders == [magic : {59, 60}, version : {1, 2}]

\* the header assertions: lines 594 and 597 (v3), 673-680 (v4), 869-872 (cc)
HeaderAcceptedMagicOnly(dec, h) ==
    IF dec = "v3" THEN h.line1 = "[CEL]"
    ELSE IF dec = "v4" THEN h.magic = 64
    ELSE h.magic = 59

HeaderAccepted(dec, h) ==
    IF dec = "v3" THEN h.line1 = "[CEL]" /\ h.line2 = "Version=3"
    ELSE IF dec = "v4" THEN /\ h.magic = 64
                            /\ h.version = 4
                            /\ h.num_cells = h.rows * h.cols
    ELSE h.magic = 59 /\ h.version = 1

IdleCEL ==
    /\ cel_pc = "idle"
    /\ entry = "none"
    /\ file_kind = "plain"
    /\ first_byte = -1
    /\ compressed = FALSE
    /\ version = 0
    /\ decoder = "none"
    /\ decoders_invoked = 0
    /\ pipe_exists = FALSE
    /\ pipe_created = FALSE
    /\ helper_spawned = FALSE
    /\ helper = "none"
    /\ cel_fh_open = FALSE
    /\ cel_exc = FALSE
    /\ cel_rows = 0
    /\ cel_cols = 0
    /\ placed = << >>
    /\ yvec = << >>
    /\ ignore_masked = TRUE
    /\ ignore_outliers = TRUE
    /\ cel_header = << >>
    /\ declared_cells = 0
    /\ cells_in_file = 0
    /\ yraw = << >>
    /\ masked_coords = << >>
    /\ outlier_coords = << >>
    /\ cc_groups = 0
    /\ cc_dataset = << >>
    /\ read = 0
    /\ consumed = 0
    /\ first_data_group_pos = 0
    /\ read_after_header = -1

\* a caller calls parse_cel(path) on an existing file
CEL_CallParseCel ==
    /\ cel_pc = "idle"
    /\ entry' = "parse_cel"
    /\ file_kind' \in FileKinds
    /\ first_byte' \in FirstBytes
    /\ cel_pc' = "detect"
    /\ UNCHANGED <<compressed, version, decoder, decoders_invoked, pipe_exists,
                   pipe_created, helper_spawned, helper, cel_fh_open, cel_exc, cel_rows,
                   cel_cols, placed, yvec>>
    /\ UNCHANGED <<optVars, fileVars>>
    /\ UNCHANGED notCEL

\* a caller calls one of the decoders directly, with its compressed flag
\* and, for v4 and Command Console, the ignore_outliers and ignore_masked
\* options
CEL_CallDecoder ==
    /\ cel_pc = "idle"
    /\ entry' \in EntryPoints \ {"parse_cel"}
    /\ file_kind' \in {"plain", "gzip"}
    /\ first_byte' \in FirstBytes
    /\ compressed' \in BOOLEAN
    /\ decoder' = DecoderOfEntry(entry')
    /\ decoders_invoked' = 1
    /\ cel_pc' = IF compressed' THEN "pipe" ELSE "open"
    /\ UNCHANGED <<version, pipe_exists, pipe_created, helper_spawned, helper,
                   cel_fh_open, cel_exc, cel_rows, cel_cols, placed, yvec>>
    /\ ignore_masked' \in (IF entry' = "parse_celfile_v3" THEN {TRUE} ELSE BOOLEAN)
    /\ ignore_outliers' \in (IF entry' = "parse_celfile_v3" THEN {TRUE} ELSE BOOLEAN)
    /\ UNCHANGED fileVars
    /\ UNCHANGED notCEL

\* lines 1069-1085: the gzip test and the first byte
CEL_Detect ==
    /\ cel_pc = "detect"
    /\ LET fh == TryOpenGzip(file_kind)
       IN  /\ compressed' = (fh # "None")
           /\ IF fh = "gzip_handle" /\ first_byte # -1
              THEN /\ version' = first_byte
                   /\ cel_pc' = "dispatch"
                   /\ UNCHANGED cel_exc
              ELSE \* open(path) fails, fh.read(1) raises, or ord('') raises
                   /\ cel_exc' = TRUE
                   /\ cel_pc' = "raised"
                   /\ UNCHANGED version
    /\ UNCHANGED <<entry, file_kind, first_byte, decoder, decoders_invoked,
                   pipe_exists, pipe_created, helper_spawned, helper, cel_fh_open,
                   cel_rows, cel_cols, placed, yvec>>
    /\ UNCHANGED <<optVars, fileVars>>
    /\ UNCHANGED notCEL

\* lines 1087-1096: the call of the decoder for the version found
CEL_Dispatch ==
    /\ cel_pc = "dispatch"
    /\ decoder' = DecoderFor(version)
    /\ decoders_invoked' = decoders_invoked + 1
    /\ cel_pc' = IF compressed THEN "pipe" ELSE "open"
    /\ UNCHANGED <<entry, file_kind, first_byte, compressed, version, pipe_exists,
                   pipe_created, helper_spawned, helper, cel_fh_open, cel_exc, cel_rows,
                   cel_cols, placed, yvec>>
    /\ ignore_masked' = TRUE        \* the decoders' defaults: parse_cel
    /\ ignore_outliers' = TRUE      \* passes path and compressed only
    /\ UNCHANGED fileVars
    /\ UNCHANGED notCEL

\* lines 547-557, create_gzip_pipe, called before the decoder's try block
\* (lines 582, 664, 999): an exception raised here leaves the decoder at once
CEL_CreatePipe ==
    /\ cel_pc = "pipe"
    /\ \E o \in PipeOutcomes :
          /\ pipe_exists' = (o \in {"popen_fails", "ok"})
          /\ pipe_created' = (o \in {"popen_fails", "ok"})
          /\ helper_spawned' = (o = "ok")
          /\ helper' = (IF o = "ok" THEN "opening" ELSE "none")
          /\ cel_exc' = (o # "ok")
          /\ cel_pc' = IF o = "ok" THEN "open" ELSE "raised"
    /\ UNCHANGED <<entry, file_kind, first_byte, compressed, version, decoder,
                   decoders_invoked, cel_fh_open, cel_rows, cel_cols, placed, yvec>>
    /\ UNCHANGED <<optVars, fileVars>>
    /\ UNCHANGED notCEL

\* lines 586, 668, 1001: the file (or pipe) is opened before the try block.
\* open() raises on failure; fopen returns NULL, which the first fgets or
\* fread of the try block then dereferences.  Opening a named pipe for
\* reading completes together with the helper's opening it for writing.
CEL_Open ==
    /\ cel_pc = "open"
    /\ \E ok \in BOOLEAN :
          IF ok
          THEN /\ cel_fh_open' = TRUE
               /\ helper' = (IF helper = "opening" THEN "writing" ELSE helper)
               /\ cel_pc' = "parse"
               /\ UNCHANGED cel_exc
          ELSE /\ cel_fh_open' = FALSE
               /\ UNCHANGED helper
               /\ cel_exc' = (decoder = "cc")
               /\ cel_pc' = IF decoder = "cc" THEN "raised" ELSE "crashed"
    /\ UNCHANGED <<entry, file_kind, first_byte, compressed, version, decoder,
                   decoders_invoked, pipe_exists, pipe_created, helper_spawned,
                   cel_rows, cel_cols, placed, yvec>>
    /\ UNCHANGED <<optVars, fileVars>>
    /\ UNCHANGED notCEL

\* the try block of parse_celfile_v4 (lines 670-721): the header and its
\* assertions, the intensities, then the masked and the outlier entries
CEL_ParseV4 ==
    /\ cel_pc = "parse"
    /\ decoder = "v4"
    /\ \E h \in V4Headers :
          /\ cel_header' = h
          /\ IF ~HeaderAccepted("v4", h)
             THEN /\ cel_exc' = TRUE
                  /\ cel_pc' = "finally"
                  /\ UNCHANGED <<cel_rows, cel_cols, placed, yvec, declared_cells,
                                 cells_in_file, yraw, masked_coords, outlier_coords>>
             ELSE /\ cel_rows' = h.rows
                  /\ cel_cols' = h.cols
                  /\ declared_cells' = h.num_cells
                  /\ placed' \in [(0 .. h.cols - 1) \X (0 .. h.rows - 1) -> IntensityVals]
                  /\ cells_in_file' \in AvailChoices(h.num_cells)
                  /\ \E stale \in IntensityVals :
                        yraw' = read_cell_intensities(placed', h.rows, h.cols,
                                                      cells_in_file', stale)
                  /\ masked_coords' \in (IF cells_in_file' < h.num_cells THEN {<< >>}
                                        ELSE CoordSeqs(h.rows, h.cols))
                  /\ outlier_coords' \in (IF cells_in_file' < h.num_cells THEN {<< >>}
                                         ELSE CoordSeqs(h.rows, h.cols))
                  /\ LET y1 == IF ignore_masked THEN yraw'
                               ELSE apply_mask(yraw', h.rows, masked_coords')
                         y2 == IF ignore_outliers THEN y1
                               ELSE apply_mask(y1, h.rows, outlier_coords')
                         oob == \/ ~ignore_masked /\ MaskOutOfBounds(yraw', h.rows, masked_coords')
                                \/ ~ignore_outliers /\ MaskOutOfBounds(yraw', h.rows, outlier_coords')
                     IN  /\ yvec' = y2
                         /\ cel_pc' \in (IF oob THEN {"finally", "crashed"} ELSE {"finally"})
                  /\ UNCHANGED cel_exc
    /\ UNCHANGED <<entry, file_kind, first_byte, compressed, version, decoder,
                   decoders_invoked, pipe_exists, pipe_created, helper_spawned, helper,
                   cel_fh_open, optVars, cc_groups, cc_dataset, ccStreamVars>>
    /\ UNCHANGED notCEL

MaxValues == 2     \* intensities a v3 file or a Command Console data set declares
MaxGroups == 2     \* data groups a Command Console file declares

\* the vector a decoder fills from num declared values of which avail are in
\* the file: the positions past the end of the data hold what the buffer held
ValuesRead(vals, num, avail, stale) ==
    [pos \in 0 .. num - 1 |-> IF pos < avail THEN vals[pos] ELSE stale]

\* the try block of parse_celfile_v3 (lines 588-612): the two header lines
\* and their assertions, the search for the NumberCells= line, then one line
\* per cell.  fgets' result is not looked at: at end-of-file the buffer
\* keeps the last line, so the search for a NumberCells= line that is not in
\* the file never ends (or the repeated cut of the buffer writes outside
\* it), and the cell loop parses the stale line again.
CEL_ParseV3 ==
    /\ cel_pc = "parse"
    /\ decoder = "v3"
    /\ \E h \in V3Headers :
          /\ cel_header' = h
          /\ IF ~HeaderAccepted("v3", h)
             THEN /\ cel_exc' = TRUE
                  /\ cel_pc' = "finally"
                  /\ UNCHANGED <<yvec, declared_cells, cells_in_file, yraw>>
             ELSE \E has_number_cells \in BOOLEAN :
                     IF ~has_number_cells
                     THEN /\ cel_pc' \in {"hung", "crashed"}
                          /\ UNCHANGED <<cel_exc, yvec, declared_cells,
                                         cells_in_file, yraw>>
                     ELSE /\ declared_cells' \in 0 .. MaxValues
                          /\ cells_in_file' \in AvailChoices(declared_cells')
                          /\ \E vals \in [0 .. declared_cells' - 1 -> IntensityVals],
                                stale \in IntensityVals :
                                yraw' = ValuesRead(vals, declared_cells',
                                                   cells_in_file', stale)
                          /\ yvec' = yraw'
                          /\ cel_pc' = "finally"
                          /\ UNCHANGED cel_exc
    /\ UNCHANGED <<entry, file_kind, first_byte, compressed, version, decoder,
                   decoders_invoked, pipe_exists, pipe_created, helper_spawned, helper,
                   cel_fh_open, cel_rows, cel_cols, placed, optVars,
                   masked_coords, outlier_coords, cc_groups, cc_dataset,
                   ccStreamVars>>
    /\ UNCHANGED notCEL

\* the columns a Command Console data set declares: (name, type, size)
CcColumns == [name : {"Intensity", "StdDev"}, type : {5, 6}, size : {2, 4}]

CcColumnLists == UNION {[1 .. k -> CcColumns] : k \in 0 .. 2}

CcDatasets == [name : {"Intensity", "StdDev"}, cols : CcColumnLists]

\* lines 1004: "assert num_data_groups == 1"
GroupsAccepted(g) == g = 1

\* lines 969-975: the assertions on the data set named Intensity
ColumnsAcceptedNameOnly(cols) ==
    /\ Len(cols) >= 1
    /\ cols[1].name = "Intensity"

ColumnsAccepted(cols) ==
    /\ Len(cols) = 1
    /\ cols[1].name = "Intensity"
    /\ cols[1].type = 6
    /\ cols[1].size = 4

\* fh.read(nbytes) on a stream of size bytes standing at pos: the position
\* after the read.  A negative count reads to the end of the stream; at the
\* end of the stream fewer bytes than asked for are returned.
fh_read(pos, size, nbytes) ==
    IF nbytes < 0 \/ pos + nbytes > size THEN size ELSE pos + nbytes

\* the number of characters of a name
NameLen(name) == IF name = "Intensity" THEN 9 ELSE 6

\* lines 865-876: magic (1), version (1), number of data groups (4),
\* position of the first data group (4)
FileHeaderBytes == 10

\* lines 904-919: a data header whose strings are empty and that has no
\* parameters: the six length and count fields
BareDataHeaderBytes == 24

\* lines 980-983: next_pos, dataset_pos, num_datasets and an empty name
DataGroupHeaderBytes == 16

\* lines 928-932: name (wide string), value type (1), size (4)
ColBytes(col) == 4 + 2 * NameLen(col.name) + 1 + 4

RECURSIVE ColsBytes(_)
ColsBytes(cols) ==
    IF cols = << >> THEN 0 ELSE ColBytes(Head(cols)) + ColsBytes(Tail(cols))

\* lines 936-955: data_pos, next_pos, name, num_params (0), num_cols, the
\* columns, num_rows
DatasetHeaderBytes(ds) ==
    4 + 4 + (4 + 2 * NameLen(ds.name)) + 4 + 4 + ColsBytes(ds.cols) + 4

MaxParents == 1    \* parent headers nested in the data header
GuidLens == {-1, 0, 2}    \* declared length of the data type identifier

\* the try block of parse_celfile_cc (lines 1002-1010): the file header and
\* its assertions, the number of data groups, the data header with its
\* parent headers, the assertion on the position of the first data group,
\* then the data set of the data group (lines 934-976).  Every read helper
\* (lines 796-839) adds the length it asks for to read[0], whatever fh.read
\* returns.  A data set that is not named Intensity yields no vector.
\* read_cc_intensities (lines 762-769) decodes num_rows values from the bytes
\* read: when the file holds fewer, it reads past the end of the bytes
\* object.
CEL_ParseCC ==
    /\ cel_pc = "parse"
    /\ decoder = "cc"
    /\ \E h \in CcHeaders :
          /\ cel_header' = h
          /\ IF ~HeaderAccepted("cc", h)
             THEN /\ cel_exc' = TRUE
                  /\ cel_pc' = "finally"
                  /\ read' = (IF h.magic # 59 THEN 1 ELSE 2)
                  /\ consumed' = read'
                  /\ UNCHANGED <<yvec, declared_cells, cells_in_file, yraw,
                                 cc_groups, cc_dataset, first_data_group_pos,
                                 read_after_header>>
             ELSE \E g \in 0 .. MaxGroups, guid_len \in GuidLens,
                     parents \in 0 .. MaxParents, pos_off \in {0, 1} :
                  LET pos_hdr == FileHeaderBytes + BareDataHeaderBytes + guid_len
                                    + parents * BareDataHeaderBytes
                  IN
                  /\ cc_groups' = g
                  /\ first_data_group_pos' = pos_hdr + pos_off
                  /\ IF ~GroupsAccepted(g)
                     THEN /\ cel_exc' = TRUE
                          /\ cel_pc' = "finally"
                          /\ read' = FileHeaderBytes
                          /\ consumed' = FileHeaderBytes
                          /\ UNCHANGED <<yvec, declared_cells, cells_in_file, yraw,
                                         cc_dataset, read_after_header>>
                     ELSE IF guid_len < 0
                     THEN \* read_string: fh.read(-1) takes the whole stream,
                          \* the next read_int counts 4 bytes and fails
                          /\ cel_exc' = TRUE
                          /\ cel_pc' = "finally"
                          /\ read' = FileHeaderBytes + 4 + guid_len + 4
                          /\ consumed' \in
                                {fh_read(FileHeaderBytes + 4,
                                         pos_hdr + DataGroupHeaderBytes
                                            + DatasetHeaderBytes(ds), guid_len) :
                                    ds \in CcDatasets}
                          /\ UNCHANGED <<yvec, declared_cells, cells_in_file, yraw,
                                         cc_dataset, read_after_header>>
                     ELSE /\ read_after_header' = pos_hdr
                          /\ IF first_data_group_pos' # pos_hdr
                             THEN /\ cel_exc' = TRUE
                                  /\ cel_pc' = "finally"
                                  /\ read' = pos_hdr
                                  /\ consumed' = pos_hdr
                                  /\ UNCHANGED <<yvec, declared_cells, cells_in_file,
                                                 yraw, cc_dataset>>
                             ELSE \E ds \in CcDatasets, next_pos_behind \in BOOLEAN,
                                     d \in 0 .. MaxValues :
                                  \E a \in AvailChoices(d) :
                                  LET pos_ds == pos_hdr + DataGroupHeaderBytes
                                                   + DatasetHeaderBytes(ds)
                                      size == pos_ds + 4 * a
                                      next_pos == IF next_pos_behind THEN pos_ds - 1
                                                  ELSE pos_ds + 4 * d
                                      num_chars == next_pos - pos_ds
                                  IN
                                  /\ cc_dataset' = ds
                                  /\ read' = pos_ds + num_chars
                                  /\ consumed' = fh_read(pos_ds, size, num_chars)
                                  /\ IF ds.name # "Intensity"
                                     THEN /\ cel_pc' = "finally"
                                          /\ UNCHANGED <<cel_exc, yvec, declared_cells,
                                                         cells_in_file, yraw>>
                                     ELSE IF ~ColumnsAccepted(ds.cols)
                                     THEN /\ cel_exc' = TRUE
                                          /\ cel_pc' = "finally"
                                          /\ UNCHANGED <<yvec, declared_cells,
                                                         cells_in_file, yraw>>
                                     ELSE /\ declared_cells' = d
                                          /\ cells_in_file' = a
                                          /\ \E vals \in [0 .. d - 1 -> IntensityVals],
                                                stale \in IntensityVals :
                                                yraw' = ValuesRead(vals, d, a, stale)
                                          /\ yvec' = yraw'
                                          /\ cel_pc' \in (IF a < d
                                                         THEN {"finally", "crashed"}
                                                         ELSE {"finally"})
                                          /\ UNCHANGED cel_exc
    /\ UNCHANGED <<entry, file_kind, first_byte, compressed, version, decoder,
                   decoders_invoked, pipe_exists, pipe_created, helper_spawned, helper,
                   cel_fh_open, cel_rows, cel_cols, placed, optVars,
                   masked_coords, outlier_coords>>
    /\ UNCHANGED notCEL

\* another step of the try block raises (a malformed tag/value block, a
\* short read or a wrong data position in a Command Console header, a
\* negative count)
CEL_ParseFails ==
    /\ cel_pc = "parse"
    /\ cel_exc' = TRUE
    /\ cel_pc' = "finally"
    /\ UNCHANGED <<entry, file_kind, first_byte, compressed, version, decoder,
                   decoders_invoked, pipe_exists, pipe_created, helper_spawned, helper,
                   cel_fh_open, cel_rows, cel_cols, placed, yvec>>
    /\ UNCHANGED <<optVars, fileVars>>
    /\ UNCHANGED notCEL

\* the finally clauses: v3 (lines 614-617) closes the file and removes the
\* pipe, v4 (lines 727-729) removes the pipe, cc (lines 1015-1018) closes the
\* file and removes the pipe; then the result is returned or the exception
\* goes on
CEL_Finally ==
    /\ cel_pc = "finally"
    /\ cel_fh_open' = IF decoder = "v4" THEN cel_fh_open ELSE FALSE
    /\ pipe_exists' = IF compressed THEN FALSE ELSE pipe_exists
    /\ cel_pc' = IF cel_exc THEN "raised" ELSE "returned"
    /\ UNCHANGED <<entry, file_kind, first_byte, compressed, version, decoder,
                   decoders_invoked, pipe_created, helper_spawned, helper, cel_exc,
                   cel_rows, cel_cols, placed, yvec>>
    /\ UNCHANGED <<optVars, fileVars>>
    /\ UNCHANGED notCEL

\* line 556, the helper "gunzip -c path > pipe": once the decoder has stopped
\* reading and still holds its end of the pipe open, a helper with more
\* data than the pipe takes blocks in its write
CEL_HelperBlocks ==
    /\ helper = "writing"
    /\ cel_fh_open
    /\ cel_pc \in {"finally", "returned", "raised"}
    /\ helper' = "blocked"
    /\ UNCHANGED <<cel_pc, entry, file_kind, first_byte, compressed, version,
                   decoder, decoders_invoked, pipe_exists, pipe_created,
                   helper_spawned, cel_fh_open, cel_exc, cel_rows, cel_cols,
                   placed, yvec>>
    /\ UNCHANGED <<optVars, fileVars>>
    /\ UNCHANGED notCEL

\* line 556, the helper ends: it has written all its data, or the read end
\* of the pipe is closed and its write fails (SIGPIPE)
CEL_HelperExits ==
    /\ \/ helper = "writing"
       \/ helper = "blocked" /\ ~cel_fh_open
    /\ helper' = "exited"
    /\ UNCHANGED <<cel_pc, entry, file_kind, first_byte, compressed, version,
                   decoder, decoders_invoked, pipe_exists, pipe_created,
                   helper_spawned, cel_fh_open, cel_exc, cel_rows, cel_cols,
                   placed, yvec>>
    /\ UNCHANGED <<optVars, fileVars>>
    /\ UNCHANGED notCEL

NextCEL ==
    \/ CEL_CallParseCel
    \/ CEL_CallDecoder
    \/ CEL_Detect
    \/ CEL_Dispatch
    \/ CEL_CreatePipe
    \/ CEL_Open
    \/ CEL_ParseV4
    \/ CEL_ParseV3
    \/ CEL_ParseCC
    \/ CEL_ParseFails
    \/ CEL_Finally
    \/ CEL_HelperBlocks
    \/ CEL_HelperExits

-----------------------------------------------------------------------------
vars == <<mpVars, cdfVars, celVars>>

InitMedpolish == InitMP /\ IdleCDF /\ IdleCEL

InitParseCdf == IdleMP /\ IdleCDF /\ IdleCEL

InitParseCel == IdleMP /\ IdleCDF /\ IdleCEL

SpecMP == InitMedpolish /\ [][NextMP]_vars

SpecCDF == InitParseCdf /\ [][NextCDF]_vars

SpecCEL == InitParseCel /\ [][NextCEL]_vars

-----------------------------------------------------------------------------
(***************************************************************************)
(* Properties of median polish                                             *)
(***************************************************************************)
IterationBoundary == mp_pc \in {"rows", "done"}

ReconstructsAt(i, j) ==
    X0[i][j].v = row_eff[i] + col_eff[j] + global_eff + X[i][j].v

\* C1 as stated: after any number of completed iterations (and at return),
\* original[i,j] == row_eff[i] + col_eff[j] + global_eff + residual[i,j]
\* exactly, at every position that holds a value, for any input matrix.
C1_ExactReconstruction ==
    IterationBoundary =>
        \A i \in Rows, j \in Cols : ~X0[i][j].m => ReconstructsAt(i, j)

\* C1 amended: the decomposition is exact at every position that holds a
\* value as long as no "X[i,j] -= d", "eff += d" or "global_eff += diff" of
\* the run was rounded by the floating-point arithmetic; it holds after each
\* sweep, not only at iteration boundaries.
C1_ReconstructionWhileExact ==
    ~inexact => \A i \in Rows, j \in Cols : ~X0[i][j].m => ReconstructsAt(i, j)

C1_Witness ==
    /\ mp_pc = "done"
    /\ t >= 2
    /\ ~inexact
    /\ global_eff # 0
    /\ \E i \in Rows : row_eff[i] # 0
    /\ \E j \in Cols : col_eff[j] # 0
    /\ \E i \in Rows, j \in Cols : ~X[i][j].m /\ X[i][j].v # 0

\* X is a perfect additive decomposition: X[i,j] = r[i] + c[j] + g
Additive(M) ==
    \A i \in Rows, j \in Cols :
        /\ ~M[i][j].m
        /\ M[i][j].v + M[1][1].v = M[i][1].v + M[1][j].v

\* C2: medpolish with maxiter >= 1 (or -1) on a perfect additive
\* decomposition converges in iteration 1: converged = true, iterations = 1.
C2_AdditiveConvergesAtOnce ==
    (/\ ~masked_input
     /\ Additive(X0)
     /\ (maxiter >= 1 \/ maxiter = -1)
     /\ IterationBoundary
     /\ t >= 1) => (converged /\ t = 1)

\* C3: the loop stops exactly when an iteration declares convergence or when
\* maxiter iterations have run: with maxiter >= 0 the call terminates with
\* iterations <= maxiter and converged = false implies iterations = maxiter;
\* with maxiter = -1 it returns only after some iteration declared
\* convergence; no iteration runs once a stopping condition holds.
\* Termination for maxiter >= 0: every pass through the loop body counts one
\* iteration and t never passes maxiter.
C3_LoopStops ==
    /\ [](maxiter >= 0 => t <= maxiter)
    /\ []((mp_pc = "done" /\ maxiter >= 0 /\ ~converged) => t = maxiter)
    /\ []((mp_pc = "done" /\ maxiter = -1) => converged)
    /\ []((mp_pc \in {"cols", "test"}) => (~converged /\ (maxiter = -1 \/ t < maxiter)))
    /\ [][(mp_pc = "rows" /\ (converged \/ (maxiter >= 0 /\ t >= maxiter)))
              => (mp_pc' = "done" /\ t' = t)]_vars
    /\ [][(mp_pc = "test") => (t' = t + 1)]_vars

C3_Witness ==
    /\ mp_pc = "done"
    /\ maxiter = MaxIter
    /\ t = maxiter
    /\ ~converged
    /\ new_sar > 0

-----------------------------------------------------------------------------
(***************************************************************************)
(* Properties of parse_cdf                                                 *)
(***************************************************************************)
\* the selection rule as documented: pm keeps the cells whose probe base
\* differs from the reference base, mm those where they are equal, all keeps
\* every cell
Selected(pt, cell) ==
    \/ pt = "all"
    \/ (pt = "pm" /\ cell.probe # cell.ref)
    \/ (pt = "mm" /\ cell.probe = cell.ref)

\* the indices of the selected cells, in file order
RECURSIVE SelectedIndices(_, _)
SelectedIndices(cells, pt) ==
    IF cells = << >> THEN << >>
    ELSE (IF Selected(pt, Head(cells))
          THEN << CellIndex(num_rows, Head(cells).x, Head(cells).y) >>
          ELSE << >>) \o SelectedIndices(Tail(cells), pt)

Min(a, b) == IF a < b THEN a ELSE b

\* C4: a cell of a group is retained iff (pm and probe base # reference
\* base) or (mm and probe base = reference base) or (all); the retained
\* cells appear in the group's index sequence in file order and no other
\* cell contributes an index.  (The index array holds n entries: retained
\* cells beyond n are counted but not kept.)
C4_RetainedCellsInFileOrder ==
    (cdf_pc = "cells" /\ probe_type \in {"pm", "mm", "all"}) =>
        LET sel == SelectedIndices(cells_read, probe_type)
        IN  /\ c = Len(sel)
            /\ ind = SubSeq(sel, 1, Min(n, Len(sel)))

C4_Witness ==
    /\ cdf_pc = "cells"
    /\ probe_type = "mm"
    /\ cell_i = num_probes
    /\ Len(cells_read) = 2
    /\ cells_read[1].probe # cells_read[1].ref
    /\ cells_read[2].probe = cells_read[2].ref
    /\ Len(ind) = 1
    /\ c = n

\* C5: when parse_cdf succeeds every group's index sequence has exactly its
\* declared expected count (NumAtoms under pm/mm, NumCells under all), so the
\* stored indices total the sum of the declared counts; a group whose number
\* of cells passing the filter differs from its declared count (fewer or
\* more) makes the parse fail without a result.
C5_ExpectedCountEnforced ==
    /\ cdf_pc = "returned" => (~count_mismatch /\ total_stored = total_expected)
    /\ cdf_pc = "units" => (~count_mismatch /\ total_stored = total_expected)
    /\ count_mismatch => (cdf_exc /\ cdf_pc \in {"finally", "raised"})

C5_Witness ==
    /\ cdf_pc = "returned"
    /\ Len(probesets) = 2
    /\ total_expected >= 3
    /\ probe_type = "pm"

\* C6: for every grid geometry and every cell with 0 <= x < cols and
\* 0 <= y < rows the linear index rows*y + x lies in [0, rows*cols), and two
\* distinct in-range cells never get the same index.
C6_IndexInRangeAndUnique ==
    cdf_pc = "cells" =>
        /\ \A k \in 1 .. Len(ind) : 0 <= ind[k] /\ ind[k] < num_rows * num_cols
        /\ \A a, b \in 1 .. Len(cells_read) :
              (cells_read[a].x # cells_read[b].x \/ cells_read[a].y # cells_read[b].y)
                  => CellIndex(num_rows, cells_read[a].x, cells_read[a].y)
                         # CellIndex(num_rows, cells_read[b].x, cells_read[b].y)


-----------------------------------------------------------------------------
(***************************************************************************)
(* Properties of parse_cel and the decoders                                *)
(***************************************************************************)
CallFinished == cel_pc \in {"returned", "raised"}

\* C7: the v4 decoder and the layout decoder use the same addressing: the
\* intensity of the cell at column x, row y is stored at position
\* rows*y + x of the returned vector, for every geometry.
C7_SameAddressing ==
    (/\ decoder = "v4"
     /\ cel_pc = "returned"
     /\ ignore_masked
     /\ ignore_outliers
     /\ cells_in_file = declared_cells) =>
        \A x \in 0 .. cel_cols - 1, y \in 0 .. cel_rows - 1 :
            /\ CellIndex(cel_rows, x, y) \in DOMAIN yvec
            /\ yvec[CellIndex(cel_rows, x, y)] = placed[<<x, y>>]

\* C8: in parse_cel a file that is not gzip-compressed is treated as the
\* literal file: compressed is false, the format byte is read from the plain
\* file and no pipe is created; only a gzip file goes through the pipe.
C8_PlainFileReadLiterally ==
    /\ (entry = "parse_cel" /\ file_kind = "plain" /\ cel_pc \notin {"idle", "detect"})
           => (/\ ~compressed
               /\ ~pipe_created
               /\ (first_byte # -1 => (version = first_byte /\ cel_pc # "raised")))
    /\ (entry = "parse_cel" /\ pipe_created) => file_kind = "gzip"

C10_PipeRemovedOnEveryExit ==
    (CallFinished /\ pipe_created) => ~pipe_exists


-----------------------------------------------------------------------------
(***************************************************************************)
(* Properties of the resources a call holds                                *)
(***************************************************************************)
\* C11: when a layout or intensity decode call has finished, by returning or
\* by raising, every file handle the call opened has been closed.
C11_HandlesClosedOnEveryExit ==
    /\ cdf_pc \in {"returned", "raised"} => ~cdf_fp_open
    /\ CallFinished => ~cel_fh_open

-----------------------------------------------------------------------------
(***************************************************************************)
(* Properties of the v4 masks                                              *)
(***************************************************************************)
\* the linear positions rows*y + x of a list of <<x, y>> entries
MaskPositions(coords) ==
    {CellIndex(cel_rows, coords[k][1], coords[k][2]) : k \in 1 .. Len(coords)}

\* the positions the options in force ask to overwrite
PositionsToMask ==
    (IF ignore_masked THEN {} ELSE MaskPositions(masked_coords))
        \cup (IF ignore_outliers THEN {} ELSE MaskPositions(outlier_coords))

\* C12: a v4 decode with ignore_masked = False (ignore_outliers = False)
\* sets exactly the positions rows*y + x of the declared masked (outlier)
\* coordinates of the returned vector to NaN and leaves every other position
\* as read; with both options at their default the vector is the raw one.
C12_MasksSetExactlyDeclaredPositions ==
    (decoder = "v4" /\ cel_pc = "returned") =>
        /\ PositionsToMask \subseteq DOMAIN yvec
        /\ \A pos \in DOMAIN yvec :
              yvec[pos] = IF pos \in PositionsToMask THEN NaN ELSE yraw[pos]
        /\ (ignore_masked /\ ignore_outliers) => yvec = yraw

-----------------------------------------------------------------------------
(***************************************************************************)
(* Properties of the decoders' error handling                              *)
(***************************************************************************)
\* C13: in each intensity decoder, reaching end-of-file before all declared
\* data has been read is fatal: the call returns no vector holding unread
\* positions and never scans on indefinitely.
C13_EndOfFileIsFatal ==
    /\ cel_pc = "returned" => cells_in_file = declared_cells
    /\ cel_pc # "hung"


\* the decoder has read the header fields of the file
HeaderRead == DOMAIN cel_header # {}

\* the header the decoder read is not the one its format prescribes
WrongHeader ==
    /\ HeaderRead
    /\ \/ decoder = "v3" /\ (cel_header.line1 # "[CEL]" \/ cel_header.line2 # "Version=3")
       \/ decoder = "v4" /\ \/ cel_header.magic # 64
                            \/ cel_header.version # 4
                            \/ cel_header.num_cells # cel_header.rows * cel_header.cols
       \/ decoder = "cc" /\ (cel_header.magic # 59 \/ cel_header.version # 1)

\* C14: a decode aborts with a failure, before reading any intensity, when
\* the header is wrong (v3: first two lines other than [CEL] / Version=3;
\* v4: magic # 64, version # 4 or cell count # rows*cols; Command Console:
\* magic # 59 or version # 1); no intensity vector is returned.
C14_WrongHeaderAborts ==
    WrongHeader =>
        /\ cel_exc
        /\ cel_pc \in {"finally", "raised"}
        /\ yraw = << >>
        /\ yvec = << >>

C14_Witness ==
    /\ cel_pc = "raised"
    /\ decoder = "v4"
    /\ HeaderRead
    /\ cel_header.magic = 64
    /\ cel_header.version = 4
    /\ cel_header.num_cells # cel_header.rows * cel_header.cols
    /\ yvec = << >>

-----------------------------------------------------------------------------
(***************************************************************************)
(* Properties of parse_cdf's error handling                                *)
(***************************************************************************)
\* parse_cdf has read the header literals
CdfHeaderRead == DOMAIN cdf_header # {}

\* C15: parse_cdf fails, without returning a layout, whenever one of the
\* header literals is not exactly [CDF], Version=GC3.0, [Chip]; a file with
\* Version=GC2.0 fails.
C15_HeaderLiteralMismatchFails ==
    (/\ CdfHeaderRead
     /\ \/ cdf_header.line1 # "[CDF]"
        \/ cdf_header.line2 # "Version=GC3.0"
        \/ cdf_header.line4 # "[Chip]") =>
        /\ cdf_exc
        /\ cdf_pc \in {"finally", "raised"}
        /\ probesets = << >>

C15_Witness ==
    /\ cdf_pc = "raised"
    /\ CdfHeaderRead
    /\ cdf_header.line1 = "[CDF]"
    /\ cdf_header.line2 = "Version=GC2.0"
    /\ cdf_header.line4 = "[Chip]"
    /\ ~cdf_fp_open

\* C16: every fixed-format field read that does not match its pattern is
\* fatal: a non-matching Name=, Rows=, Cols= or NumberOfUnits= line of the
\* [Chip] section, or a non-matching Name=, NumAtoms=, NumCells= or Cell
\* line of a block, aborts the parse.
C16_FieldMismatchIsFatal ==
    (field_mismatch \/ record_failed) =>
        (cdf_exc /\ cdf_pc \in {"finally", "raised"})

-----------------------------------------------------------------------------
(***************************************************************************)
(* Properties of the sweeps of medpolish / medpolish_missing               *)
(***************************************************************************)
AllMasked(cs) == \A k \in DOMAIN cs : cs[k].m

RowSweepStep == mp_pc = "rows" /\ mp_pc' = "cols"

ColSweepStep == mp_pc = "cols" /\ mp_pc' = "test"

-----------------------------------------------------------------------------
(***************************************************************************)
(* Properties of the Command Console decoder                               *)
(***************************************************************************)
\* the Command Console decoder has read the number of data groups
CcGroupsRead ==
    /\ decoder = "cc"
    /\ HeaderRead
    /\ cel_header.magic = 59
    /\ cel_header.version = 1

\* the Command Console decoder has read a data set
CcDatasetRead == DOMAIN cc_dataset # {}

NoVectorAndFailed ==
    /\ cel_exc
    /\ cel_pc \in {"finally", "raised"}
    /\ yvec = << >>

\* C18: the Command Console decoder fails unless the file header declares
\* exactly one data group, and fails if the data set named Intensity does
\* not have exactly one column, named Intensity, of type 6 and size 4.
C18_OneGroupOneIntensityColumn ==
    /\ (CcGroupsRead /\ cc_groups # 1) => NoVectorAndFailed
    /\ (/\ CcDatasetRead
        /\ cc_dataset.name = "Intensity"
        /\ \/ Len(cc_dataset.cols) # 1
           \/ cc_dataset.cols[1].name # "Intensity"
           \/ cc_dataset.cols[1].type # 6
           \/ cc_dataset.cols[1].size # 4) => NoVectorAndFailed

C18_Witness ==
    /\ cel_pc = "raised"
    /\ decoder = "cc"
    /\ CcDatasetRead
    /\ cc_groups = 1
    /\ cc_dataset.name = "Intensity"
    /\ Len(cc_dataset.cols) = 2
    /\ cc_dataset.cols[1] = [name |-> "Intensity", type |-> 6, size |-> 4]

-----------------------------------------------------------------------------
(***************************************************************************)
(* Properties of the probe selection argument                              *)
(***************************************************************************)
KnownSelections == {"pm", "mm", "all"}

\* what makes a parse fail whatever the selection is
FileIsBad ==
    \/ /\ CdfHeaderRead
       /\ \/ cdf_header.line1 # "[CDF]"
          \/ cdf_header.line2 # "Version=GC3.0"
          \/ cdf_header.line4 # "[Chip]"
    \/ record_failed
    \/ count_mismatch

\* C19: an unrecognized probe_type never makes parse_cdf fail: a warning is
\* logged and the parse proceeds exactly as under 'pm' (same retained cells,
\* same expected count NumAtoms).
C19_UnknownSelectionActsAsPm ==
    /\ (cdf_pc # "idle" /\ probe_type \in KnownSelections) => ~warned
    /\ (cdf_pc # "idle" /\ probe_type \notin KnownSelections) =>
           /\ warned
           /\ cdf_pc = "cells" =>
                  LET sel == SelectedIndices(cells_read, "pm")
                  IN  /\ n = num_pairs
                      /\ c = Len(sel)
                      /\ ind = SubSeq(sel, 1, Min(n, Len(sel)))
           /\ cdf_exc => FileIsBad

C19_Witness ==
    /\ cdf_pc = "returned"
    /\ probe_type \notin KnownSelections
    /\ warned
    /\ Len(probesets) >= 1
    /\ Len(probesets[1][2]) = 1
    /\ \E k \in 1 .. Len(probesets) : probesets[k][2] = << >>

-----------------------------------------------------------------------------
(***************************************************************************)
(* Order of the steps of one median polish iteration                       *)
(***************************************************************************)
TestStep == mp_pc = "test" /\ mp_pc' = "rows"

StepOrder ==
    {<<"rows", "cols">>, <<"cols", "test">>, <<"test", "rows">>, <<"rows", "done">>}

\* the residuals and the swept effects after sweeping with the medians d
RowSwept(d) ==
    /\ \A i \in Rows : d[i] \in MedianChoices(RowOf(X, i))
    /\ X' = [i \in Rows |-> [j \in Cols |-> CellSub(X[i][j], d[i])]]

ColSwept(d) ==
    /\ \A j \in Cols : d[j] \in MedianChoices(ColOf(X, j))
    /\ X' = [i \in Rows |-> [j \in Cols |-> CellSub(X[i][j], d[j])]]

RowMedianSets == [Rows -> UNION {MedianChoices(RowOf(X, i)) : i \in Rows}]
ColMedianSets == [Cols -> UNION {MedianChoices(ColOf(X, j)) : j \in Cols}]

\* C20: within each iteration the steps run in this order: (1) row sweep,
\* each row's median subtracted from the residuals and added to that row's
\* effect; (2) re-centering of the COLUMN effects, their median subtracted
\* from every column effect and added to the global effect; (3) column
\* sweep; (4) re-centering of the ROW effects into the global effect;
\* (5) the iteration is counted and convergence is tested on the sum of
\* absolute residuals.
C20_StepsInCodeOrder ==
    /\ [][mp_pc' # mp_pc => <<mp_pc, mp_pc'>> \in StepOrder]_vars
    /\ [][RowSweepStep =>
            \E d \in RowMedianSets :
               /\ RowSwept(d)
               /\ row_eff' = [i \in Rows |-> fadd(row_eff[i], d[i])]
               /\ col_eff' = [j \in Cols |-> fsub(col_eff[j], Median(col_eff))]
               /\ global_eff' = fadd(global_eff, Median(col_eff))]_vars
    /\ [][ColSweepStep =>
            \E d \in ColMedianSets :
               /\ ColSwept(d)
               /\ col_eff' = [j \in Cols |-> fadd(col_eff[j], d[j])]
               /\ row_eff' = [i \in Rows |-> fsub(row_eff[i], Median(row_eff))]
               /\ global_eff' = fadd(global_eff, Median(row_eff))]_vars
    /\ [][TestStep =>
            /\ UNCHANGED <<X, row_eff, col_eff, global_eff>>
            /\ t' = t + 1
            /\ sar' = SumAbsResiduals(X)
            /\ converged' = ConvergenceTest(sar', sar, eps_num)]_vars

\* the order as first stated: the row effects are re-centred after the row
\* sweep and the column effects after the column sweep
C20_RecentreSweptEffects ==
    /\ [][RowSweepStep =>
            \E d \in RowMedianSets :
               LET acc == [i \in Rows |-> fadd(row_eff[i], d[i])]
               IN  /\ RowSwept(d)
                   /\ row_eff' = [i \in Rows |-> fsub(acc[i], Median(acc))]
                   /\ col_eff' = col_eff
                   /\ global_eff' = fadd(global_eff, Median(acc))]_vars
    /\ [][ColSweepStep =>
            \E d \in ColMedianSets :
               LET acc == [j \in Cols |-> fadd(col_eff[j], d[j])]
               IN  /\ ColSwept(d)
                   /\ col_eff' = [j \in Cols |-> fsub(acc[j], Median(acc))]
                   /\ row_eff' = row_eff
                   /\ global_eff' = fadd(global_eff, Median(acc))]_vars

\* second iteration, after the row sweep: the column effects have just been
\* re-centred into a non-zero global effect, the row effects have not
C20_Witness ==
    /\ mp_pc = "cols"
    /\ t = 1
    /\ Median(row_eff) # 0
    /\ Median(col_eff) = 0
    /\ global_eff # 0
    /\ \E j \in Cols : col_eff[j] # 0

-----------------------------------------------------------------------------
(***************************************************************************)
(* Byte accounting of the Command Console decoder                          *)
(***************************************************************************)
DataHeaderRead == read_after_header >= 0

\* C21: in the Command Console decoder the byte counter equals the number of
\* bytes consumed from the stream, and once the data header has been read a
\* counter that differs from the declared first-data-group offset makes the
\* parse fail.
C21_CounterTracksStream ==
    decoder = "cc" =>
        /\ read = consumed
        /\ (DataHeaderRead /\ read_after_header # first_data_group_pos) =>
               NoVectorAndFailed

\* the part of C21 the decoder does enforce: the assertion of line 1009
C21_DataPositionAsserted ==
    (decoder = "cc" /\ DataHeaderRead /\ read_after_header # first_data_group_pos)
        => NoVectorAndFailed

-----------------------------------------------------------------------------
(***************************************************************************)
(* The groups parse_cdf returns                                            *)
(***************************************************************************)
RECURSIVE StoredIndices(_)
StoredIndices(d) ==
    IF d = << >> THEN 0 ELSE Len(Head(d)[2]) + StoredIndices(Tail(d))

DistinctKeys(d) ==
    \A k1, k2 \in 1 .. Len(d) : d[k1][1] = d[k2][1] => k1 = k2

\* C22: on success parse_cdf returns exactly NumberOfUnits groups, one per
\* parsed unit block, under distinct identifiers: no block's index sequence
\* is lost or replaced by another block's.
C22_OneGroupPerUnit ==
    cdf_pc = "returned" =>
        /\ Len(probesets) = num_probesets
        /\ DistinctKeys(probesets)
        /\ total_stored = StoredIndices(probesets)

-----------------------------------------------------------------------------
(***************************************************************************)
(* The copy argument of medpolish and medpolish_missing                    *)
(***************************************************************************)
\* C23: with copy enabled the caller's matrix stays as it was passed in,
\* whatever the number of iterations, and the residuals returned are in a
\* separate matrix; with copy disabled the residuals are written into the
\* caller's matrix, which is the matrix returned.
C23_CopyProtectsInput ==
    mp_pc # "idle" =>
        /\ copy => caller_X = X0
        /\ ~copy => caller_X = X

C23_Witness ==
    /\ mp_pc = "done"
    /\ copy
    /\ t >= 2
    /\ X # X0
    /\ caller_X = X0

-----------------------------------------------------------------------------
(***************************************************************************)
(* The sum of absolute residuals along the iterations of medpolish         *)
(***************************************************************************)
\* C24 as first stated: in medpolish neither sweep increases the sum of
\* absolute residuals, the sum computed at the end of an iteration is at
\* most the one computed at the end of the iteration before, and the first
\* is at most the sum of the absolute values of the input
C24_SumNeverIncreases ==
    /\ [][(RowSweepStep /\ ~masked_input) => ExactSumAbs(X') <= ExactSumAbs(X)]_vars
    /\ [][(ColSweepStep /\ ~masked_input) => ExactSumAbs(X') <= ExactSumAbs(X)]_vars
    /\ [][(TestStep /\ ~masked_input /\ t >= 1) => sar' <= sar]_vars
    /\ [][(TestStep /\ ~masked_input /\ t = 0) => sar' <= ExactSumAbs(X0)]_vars

\* C24: in medpolish, as long as no operation of a sweep has been rounded,
\* neither sweep increases the sum of absolute residuals; as long as the
\* sums are computed without rounding too, the sum computed at the end of
\* an iteration is at most the one computed at the end of the iteration
\* before, and the first is at most the sum of the absolute values of the
\* input.
C24_SumNeverIncreasesWhileExact ==
    /\ [][(RowSweepStep /\ ~masked_input /\ ~inexact')
             => ExactSumAbs(X') <= ExactSumAbs(X)]_vars
    /\ [][(ColSweepStep /\ ~masked_input /\ ~inexact')
             => ExactSumAbs(X') <= ExactSumAbs(X)]_vars
    /\ [][(TestStep /\ ~masked_input /\ ~inexact /\ ~sum_inexact' /\ t >= 1)
             => sar' <= sar]_vars
    /\ [][(TestStep /\ ~masked_input /\ ~inexact /\ ~sum_inexact' /\ t = 0)
             => sar' <= ExactSumAbs(X0)]_vars

\* two exact iterations of medpolish, each of which lowered the sum
C24_Witness ==
    /\ mp_pc = "rows"
    /\ ~masked_input
    /\ t = 2
    /\ ~inexact
    /\ ~sum_inexact
    /\ 0 < sar
    /\ sar < ExactSumAbs(X0)
    /\ sar = ExactSumAbs(X)

-----------------------------------------------------------------------------
(***************************************************************************)
(* The decompression helper                                                *)
(***************************************************************************)
\* the helper can never run again: it waits for a reader that will not
\* open the pipe, or for room in a pipe whose read end stays open unread
HelperStranded ==
    \/ helper = "opening"
    \/ helper = "blocked" /\ cel_fh_open

\* C25: once the decode call has finished, the helper spawned for a
\* compressed input is not left blocked opening or writing the named pipe:
\* it has ended or its next write ends it.
C25_HelperNotStranded == CallFinished => ~HelperStranded

\* C25 for the decoders that close their end of the pipe
C25_HelperNotStrandedAfterClose ==
    (CallFinished /\ decoder \in {"v3", "cc"} /\ helper = "blocked") => ~cel_fh_open

-----------------------------------------------------------------------------
(***************************************************************************)
(* Termination of parse_cdf                                                *)
(***************************************************************************)
\* C26: parse_cdf does not scan forever: when the file ends before the block
\* header it looks for, the call ends with a failure.
C26_MissingBlockIsFailure ==
    /\ cdf_pc # "hung"
    /\ blocks_missing => (cdf_exc /\ cdf_pc \in {"finally", "raised"})

=============================================================================
